---- MODULE Spec2Model ----
(***************************************************************************)
(* Model of the simple_swap program (programs/swap-2/src/lib.rs): a two    *)
(* asset constant-product pool with the instructions initialize_pool,      *)
(* add_liquidity and swap.                                                 *)
(*                                                                         *)
(* State: the Pool accounts that exist, and every token account (the user  *)
(* accounts and the vaults of the pools) with its mint, owner and amount.  *)
(* Each instruction is one action: the account validation of its Accounts  *)
(* struct, then the handler body on a working copy of the accounts, then   *)
(* the commit of that copy when, and only when, the handler returned Ok.   *)
(* `last` records the request just processed, with the accounts as they    *)
(* were before it; `prev` is the request before it when that one was a     *)
(* successful swap.                                                        *)
(*                                                                         *)
(* u64 is modelled with U64Bits bits instead of 64.                        *)
(***************************************************************************)
EXTENDS Integers, Sequences, FiniteSets, TLC

\* ------------------------------------------------------------- bounds ---
U64Bits == 17
MaxOps == 4
RichBalance == 1100
PoorBalance == 50
DepositUnit == 1000
TradeUnit == 100

U64_MAX == 2^U64Bits - 1

Users == {"u1", "u2"}
Mints == {"mA", "mB"}
\* the (mint_a, mint_b) arguments of initialize_pool that are tried
MintPairs == {<<"mA", "mB">>, <<"mB", "mA">>}

InitialBalance(u) == IF u = "u1" THEN RichBalance ELSE PoorBalance

DepositAmounts == {0, DepositUnit}
TradeAmounts == {0, TradeUnit, U64_MAX}
MinimumAmounts == {0, 90, 91}

VARIABLES pools, accts, last, prev, nops, inflight

vars == <<pools, accts, last, prev, nops, inflight>>

\* ---------------------------------------------------------- addresses ---
UserKey(u) == <<"user", u>>
UserToken(u, m) == <<"token", u, m>>
UserTokens == {UserToken(u, m) : u \in Users, m \in Mints}

\* seeds = [b"pool", mint_a, mint_b]: the address depends on the ORDER
PoolAddress(mint_a, mint_b) == <<"pool", mint_a, mint_b>>
\* seeds = [b"vault_a", pool] and [b"vault_b", pool]
VaultA(pool) == <<"vault_a", pool[2], pool[3]>>
VaultB(pool) == <<"vault_b", pool[2], pool[3]>>
PoolAddresses == {PoolAddress(p[1], p[2]) : p \in MintPairs}

\* the canonical bump of the pool seeds (a fixed function of the seeds)
CanonicalBump(mint_a, mint_b) == IF mint_a = "mA" THEN 255 ELSE 254

\* the address a set of signer seeds [b"pool", mint_a, mint_b, [bump]] signs for
SignerOfSeeds(mint_a, mint_b, bump) ==
    IF bump = CanonicalBump(mint_a, mint_b)
    THEN {PoolAddress(mint_a, mint_b)} ELSE {}

\* ------------------------------------------------------- token ledger ---
\* token::transfer(from, to, authority, amount): fails on insufficient
\* balance, on a mint mismatch of the two accounts, or when the authority
\* is not the owner of `from` or has not signed.
TransferOk(acc, from, to, authority, signers, amount) ==
    /\ from \in DOMAIN acc
    /\ to \in DOMAIN acc
    /\ acc[from].amount >= amount
    /\ acc[from].mint = acc[to].mint
    /\ acc[from].owner = authority
    /\ authority \in signers
    /\ (from # to => acc[to].amount + amount <= U64_MAX)

Transfer_no_debit(acc, from, to, authority, signers, amount) ==
    IF TransferOk(acc, from, to, authority, signers, amount)
    THEN [ok |-> TRUE,
          accts |-> [k \in DOMAIN acc |->
                       IF k = to /\ from # to
                       THEN [acc[k] EXCEPT !.amount = @ + amount]
                       ELSE acc[k]]]
    ELSE [ok |-> FALSE, accts |-> acc]

Transfer(acc, from, to, authority, signers, amount) ==
    IF TransferOk(acc, from, to, authority, signers, amount)
    THEN [ok |-> TRUE,
          accts |-> [k \in DOMAIN acc |->
                       IF from = to THEN acc[k]
                       ELSE IF k = from THEN [acc[k] EXCEPT !.amount = @ - amount]
                       ELSE IF k = to THEN [acc[k] EXCEPT !.amount = @ + amount]
                       ELSE acc[k]]]
    ELSE [ok |-> FALSE, accts |-> acc]

\* ------------------------------------------------------ u64 arithmetic ---
wrapping_mul(a, b) == [some |-> TRUE, val |-> (a * b) % (U64_MAX + 1)]

checked_mul(a, b) ==
    IF a * b > U64_MAX THEN [some |-> FALSE, val |-> 0]
    ELSE [some |-> TRUE, val |-> a * b]

checked_add(a, b) ==
    IF a + b > U64_MAX THEN [some |-> FALSE, val |-> 0]
    ELSE [some |-> TRUE, val |-> a + b]

checked_div_or_zero(a, b) ==
    IF b = 0 THEN [some |-> TRUE, val |-> 0]
    ELSE [some |-> TRUE, val |-> a \div b]

checked_div_round_up(a, b) ==
    IF b = 0 THEN [some |-> FALSE, val |-> 0]
    ELSE [some |-> TRUE, val |-> (a + b - 1) \div b]

checked_div(a, b) ==
    IF b = 0 THEN [some |-> FALSE, val |-> 0]
    ELSE [some |-> TRUE, val |-> a \div b]

calculate_swap_output_old_reserve(amount_in, reserve_in, reserve_out) ==
    LET numerator == checked_mul(amount_in, reserve_out)
        amount_out == checked_div(numerator.val, reserve_in)
    IN  IF ~numerator.some THEN [err |-> "MathOverflow", val |-> 0]
        ELSE IF ~amount_out.some THEN [err |-> "MathOverflow", val |-> 0]
        ELSE [err |-> "Ok", val |-> amount_out.val]

calculate_swap_output_amount_only(amount_in, reserve_in, reserve_out) ==
    LET numerator == checked_mul(amount_in, reserve_out)
        amount_out == checked_div(numerator.val, amount_in)
    IN  IF ~numerator.some THEN [err |-> "MathOverflow", val |-> 0]
        ELSE IF ~amount_out.some THEN [err |-> "MathOverflow", val |-> 0]
        ELSE [err |-> "Ok", val |-> amount_out.val]

calculate_swap_output(amount_in, reserve_in, reserve_out) ==
    LET numerator == checked_mul(amount_in, reserve_out)
        denominator == checked_add(reserve_in, amount_in)
        amount_out == checked_div(numerator.val, denominator.val)
    IN  IF ~numerator.some THEN [err |-> "MathOverflow", val |-> 0]
        ELSE IF ~denominator.some THEN [err |-> "MathOverflow", val |-> 0]
        ELSE IF ~amount_out.some THEN [err |-> "MathOverflow", val |-> 0]
        ELSE [err |-> "Ok", val |-> amount_out.val]

\* ------------------------------------------------------------ handlers ---
\* The result of a handler: its Result, the working copy of the accounts at
\* the moment it returned, and the amount_out it computed (swap only).
Outcome(result, acc, out) == [result |-> result, accts |-> acc, amount_out |-> out]

\* What the runtime keeps of a handler's work: everything on Ok, nothing on Err.
Commit(pre, outcome) == IF outcome.result = "Ok" THEN outcome.accts ELSE pre

\* #[derive(Accounts)] InitializePool: `init` on pool, vault_a and vault_b
InitializePoolAccounts_if_needed(pls, pool) == TRUE

InitializePoolAccounts(pls, pool) == pool \notin DOMAIN pls

\* #[derive(Accounts)] AddLiquidity / Swap: pool must be an initialized Pool
\* account at the address of its own seeds; the vaults are derived from it
PoolAccountExists(pls, pool) ==
    /\ pool \in DOMAIN pls
    /\ pool = PoolAddress(pls[pool].mint_a, pls[pool].mint_b)
    /\ pls[pool].bump = CanonicalBump(pls[pool].mint_a, pls[pool].mint_b)

add_liquidity_handler_same_amount(acc, pls, user, pool, uta, utb, amount_a, amount_b) ==
    IF ~PoolAccountExists(pls, pool) THEN Outcome("NotFound", acc, 0) ELSE
    LET ta == Transfer(acc, uta, VaultA(pool), UserKey(user), {UserKey(user)}, amount_a)
        tb == Transfer(ta.accts, utb, VaultB(pool), UserKey(user), {UserKey(user)}, amount_a)
    IN  IF ~ta.ok THEN Outcome("TransferError", ta.accts, 0)
        ELSE IF ~tb.ok THEN Outcome("TransferError", tb.accts, 0)
        ELSE Outcome("Ok", tb.accts, 0)

add_liquidity_handler_no_lookup(acc, pls, user, pool, uta, utb, amount_a, amount_b) ==
    LET ta == Transfer(acc, uta, VaultA(pool), UserKey(user), {UserKey(user)}, amount_a)
        tb == Transfer(ta.accts, utb, VaultB(pool), UserKey(user), {UserKey(user)}, amount_b)
    IN  IF ~ta.ok THEN Outcome("TransferError", ta.accts, 0)
        ELSE IF ~tb.ok THEN Outcome("TransferError", tb.accts, 0)
        ELSE Outcome("Ok", tb.accts, 0)

add_liquidity_handler_unchecked_b(acc, pls, user, pool, uta, utb, amount_a, amount_b) ==
    IF ~PoolAccountExists(pls, pool) THEN Outcome("NotFound", acc, 0) ELSE
    LET ta == Transfer(acc, uta, VaultA(pool), UserKey(user), {UserKey(user)}, amount_a)
        tb == Transfer(ta.accts, utb, VaultB(pool), UserKey(user), {UserKey(user)}, amount_b)
    IN  IF ~ta.ok THEN Outcome("TransferError", ta.accts, 0)
        ELSE Outcome("Ok", tb.accts, 0)

add_liquidity_handler(acc, pls, user, pool, uta, utb, amount_a, amount_b) ==
    IF ~PoolAccountExists(pls, pool) THEN Outcome("NotFound", acc, 0) ELSE
    LET ta == Transfer(acc, uta, VaultA(pool), UserKey(user), {UserKey(user)}, amount_a)
        tb == Transfer(ta.accts, utb, VaultB(pool), UserKey(user), {UserKey(user)}, amount_b)
    IN  IF ~ta.ok THEN Outcome("TransferError", ta.accts, 0)
        ELSE IF ~tb.ok THEN Outcome("TransferError", tb.accts, 0)
        ELSE Outcome("Ok", tb.accts, 0)

\* swap, lines 47-56: the vault balances as they are on entry, ordered by direction
swap_amount_out_reversed(acc, pool, amount_in, a_to_b) ==
    LET balance_a == acc[VaultA(pool)].amount
        balance_b == acc[VaultB(pool)].amount
    IN  IF a_to_b
        THEN calculate_swap_output(amount_in, balance_b, balance_a)
        ELSE calculate_swap_output(amount_in, balance_a, balance_b)

swap_amount_out_same_order(acc, pool, amount_in, a_to_b) ==
    LET balance_a == acc[VaultA(pool)].amount
        balance_b == acc[VaultB(pool)].amount
    IN  calculate_swap_output(amount_in, balance_a, balance_b)

swap_amount_out(acc, pool, amount_in, a_to_b) ==
    LET balance_a == acc[VaultA(pool)].amount
        balance_b == acc[VaultB(pool)].amount
    IN  IF a_to_b
        THEN calculate_swap_output(amount_in, balance_a, balance_b)
        ELSE calculate_swap_output(amount_in, balance_b, balance_a)

\* swap, line 58: require!(amount_out >= minimum_amount_out, SlippageTooHigh)
slippage_ok_inverted(amount_out, minimum_amount_out) == amount_out <= minimum_amount_out

slippage_ok_strict(amount_out, minimum_amount_out) == amount_out > minimum_amount_out

slippage_ok(amount_out, minimum_amount_out) == amount_out >= minimum_amount_out

\* swap, lines 61-127: the inbound transfer signed by the user, then the
\* outbound transfer signed by the pool through its seeds; `?` returns at the
\* first transfer that fails
swap_transfers_unchecked_out(acc, pls, user, pool, uta, utb, amount_in, amount_out, a_to_b) ==
    LET user_in == IF a_to_b THEN uta ELSE utb
        user_out == IF a_to_b THEN utb ELSE uta
        vault_in == IF a_to_b THEN VaultA(pool) ELSE VaultB(pool)
        vault_out == IF a_to_b THEN VaultB(pool) ELSE VaultA(pool)
        signer == SignerOfSeeds(pls[pool].mint_a, pls[pool].mint_b, pls[pool].bump)
        tin == Transfer(acc, user_in, vault_in, UserKey(user), {UserKey(user)}, amount_in)
        tout == Transfer(tin.accts, vault_out, user_out, pool, signer, amount_out)
    IN  IF ~tin.ok THEN Outcome("TransferError", tin.accts, amount_out)
        ELSE Outcome("Ok", tout.accts, amount_out)

swap_transfers_pays_amount_in(acc, pls, user, pool, uta, utb, amount_in, amount_out, a_to_b) ==
    LET user_in == IF a_to_b THEN uta ELSE utb
        user_out == IF a_to_b THEN utb ELSE uta
        vault_in == IF a_to_b THEN VaultA(pool) ELSE VaultB(pool)
        vault_out == IF a_to_b THEN VaultB(pool) ELSE VaultA(pool)
        signer == SignerOfSeeds(pls[pool].mint_a, pls[pool].mint_b, pls[pool].bump)
        tin == Transfer(acc, user_in, vault_in, UserKey(user), {UserKey(user)}, amount_in)
        tout == Transfer(tin.accts, vault_out, user_out, pool, signer, amount_in)
    IN  IF ~tin.ok THEN Outcome("TransferError", tin.accts, amount_out)
        ELSE IF ~tout.ok THEN Outcome("TransferError", tout.accts, amount_out)
        ELSE Outcome("Ok", tout.accts, amount_out)

swap_transfers(acc, pls, user, pool, uta, utb, amount_in, amount_out, a_to_b) ==
    LET user_in == IF a_to_b THEN uta ELSE utb
        user_out == IF a_to_b THEN utb ELSE uta
        vault_in == IF a_to_b THEN VaultA(pool) ELSE VaultB(pool)
        vault_out == IF a_to_b THEN VaultB(pool) ELSE VaultA(pool)
        signer == SignerOfSeeds(pls[pool].mint_a, pls[pool].mint_b, pls[pool].bump)
        tin == Transfer(acc, user_in, vault_in, UserKey(user), {UserKey(user)}, amount_in)
        tout == Transfer(tin.accts, vault_out, user_out, pool, signer, amount_out)
    IN  IF ~tin.ok THEN Outcome("TransferError", tin.accts, amount_out)
        ELSE IF ~tout.ok THEN Outcome("TransferError", tout.accts, amount_out)
        ELSE Outcome("Ok", tout.accts, amount_out)

swap_handler(acc, pls, user, pool, uta, utb, amount_in, minimum_amount_out, a_to_b) ==
    IF ~PoolAccountExists(pls, pool) THEN Outcome("NotFound", acc, 0) ELSE
    LET calc == swap_amount_out(acc, pool, amount_in, a_to_b)
        amount_out == calc.val
    IN  IF calc.err # "Ok" THEN Outcome(calc.err, acc, 0)
        ELSE IF ~slippage_ok(amount_out, minimum_amount_out)
             THEN Outcome("SlippageTooHigh", acc, amount_out)
        ELSE swap_transfers(acc, pls, user, pool, uta, utb, amount_in, amount_out, a_to_b)

\* ------------------------------------------------------------- requests ---
NoRequest ==
    [op |-> "none", user |-> "u1", pool |-> <<"pool", "mA", "mB">>,
     uta |-> UserToken("u1", "mA"), utb |-> UserToken("u1", "mB"),
     x |-> 0, y |-> 0, a_to_b |-> TRUE, result |-> "Ok", amount_out |-> 0,
     pre |-> <<>>, prePools |-> <<>>]

Request(op, user, pool, uta, utb, x, y, a_to_b, result, out) ==
    [op |-> op, user |-> user, pool |-> pool, uta |-> uta, utb |-> utb,
     x |-> x, y |-> y, a_to_b |-> a_to_b, result |-> result, amount_out |-> out,
     pre |-> accts, prePools |-> pools]

Remember == prev' = IF last.op = "swap" /\ last.result = "Ok" THEN last ELSE NoRequest

\* A run is explored up to MaxOps requests and ends at the first request that
\* fails: a failed request commits nothing, so whatever follows it starts from
\* a state that the run without it reaches as well.
Running == nops < MaxOps /\ last.result = "Ok"

\* A request on its way through the host runtime (the second specification
\* below); the first specification runs every request in one step and leaves
\* all callers idle.
IdleTx ==
    [status |-> "idle", op |-> "none", pool |-> <<"pool", "mA", "mB">>,
     uta |-> UserToken("u1", "mA"), utb |-> UserToken("u1", "mB"),
     x |-> 0, y |-> 0, a_to_b |-> TRUE, seen |-> <<>>, loaded |-> <<>>]

Init ==
    /\ inflight = [u \in Users |-> IdleTx]
    /\ pools = <<>>
    /\ accts = [k \in UserTokens |->
                  [mint |-> k[3], owner |-> UserKey(k[2]),
                   amount |-> InitialBalance(k[2])]]
    /\ last = NoRequest
    /\ prev = NoRequest
    /\ nops = 0

initialize_pool(authority, mint_a, mint_b) ==
    LET pool == PoolAddress(mint_a, mint_b) IN
    /\ Running
    /\ nops' = nops + 1
    /\ Remember
    /\ IF InitializePoolAccounts(pools, pool)
       THEN /\ pools' = [k \in DOMAIN pools \cup {pool} |->
                           IF k = pool
                           THEN [authority |-> UserKey(authority), mint_a |-> mint_a,
                                 mint_b |-> mint_b, bump |-> CanonicalBump(mint_a, mint_b)]
                           ELSE pools[k]]
            /\ accts' = [k \in DOMAIN accts \cup {VaultA(pool), VaultB(pool)} |->
                           IF k = VaultA(pool)
                           THEN [mint |-> mint_a, owner |-> pool, amount |-> 0]
                           ELSE IF k = VaultB(pool)
                           THEN [mint |-> mint_b, owner |-> pool, amount |-> 0]
                           ELSE accts[k]]
            /\ last' = Request("initialize_pool", authority, pool, UserToken(authority, mint_a),
                               UserToken(authority, mint_b), 0, 0, TRUE, "Ok", 0)
       ELSE /\ UNCHANGED <<pools, accts>>
            /\ last' = Request("initialize_pool", authority, pool, UserToken(authority, mint_a),
                               UserToken(authority, mint_b), 0, 0, TRUE, "AlreadyExists", 0)
    /\ UNCHANGED inflight

add_liquidity(user, pool, uta, utb, amount_a, amount_b) ==
    LET o == add_liquidity_handler(accts, pools, user, pool, uta, utb, amount_a, amount_b) IN
    /\ Running
    /\ nops' = nops + 1
    /\ Remember
    /\ accts' = Commit(accts, o)
    /\ last' = Request("add_liquidity", user, pool, uta, utb, amount_a, amount_b,
                       TRUE, o.result, 0)
    /\ UNCHANGED <<pools, inflight>>

swap(user, pool, uta, utb, amount_in, minimum_amount_out, a_to_b) ==
    LET o == swap_handler(accts, pools, user, pool, uta, utb, amount_in,
                          minimum_amount_out, a_to_b) IN
    /\ Running
    /\ nops' = nops + 1
    /\ Remember
    /\ accts' = Commit(accts, o)
    /\ last' = Request("swap", user, pool, uta, utb, amount_in, minimum_amount_out,
                       a_to_b, o.result, o.amount_out)
    /\ UNCHANGED <<pools, inflight>>

\* the user token accounts a caller passes for a pool: its own accounts of the
\* pool's two mints; its own account of mint_a on both sides; another user's
\* account of mint_a with its own of mint_b; and, once the pool of the swapped
\* pair exists, that pool's vault of mint_a with its own account of mint_b
OtherUser(u) == CHOOSE o \in Users : o # u

OtherPool(pool) == PoolAddress(pool[3], pool[2])

AccountChoices(u, pool) ==
    {<<UserToken(u, pool[2]), UserToken(u, pool[3])>>,
     <<UserToken(u, pool[2]), UserToken(u, pool[2])>>,
     <<UserToken(OtherUser(u), pool[2]), UserToken(u, pool[3])>>}
    \cup {c \in {<<VaultB(OtherPool(pool)), UserToken(u, pool[3])>>} :
             c[1] \in DOMAIN accts}

\* the amounts a trader offers: the fixed ones, and what the last swap paid
OfferedAmounts ==
    TradeAmounts \cup (IF last.op = "swap" /\ last.result = "Ok"
                       THEN {last.amount_out} ELSE {})

Next ==
    \/ \E u \in Users, p \in MintPairs : initialize_pool(u, p[1], p[2])
    \/ \E u \in Users, pool \in PoolAddresses, a \in DepositAmounts, b \in DepositAmounts :
          \E ut \in AccountChoices(u, pool) : add_liquidity(u, pool, ut[1], ut[2], a, b)
    \/ \E u \in Users, pool \in PoolAddresses, x \in OfferedAmounts,
          m \in MinimumAmounts, d \in BOOLEAN :
          \E ut \in AccountChoices(u, pool) : swap(u, pool, ut[1], ut[2], x, m, d)

Spec == Init /\ [][Next]_vars

\* ------------------------------------------- requests of several callers ---
\* The second specification: callers issue requests at any time and the host
\* runtime runs each as one transaction. A transaction is submitted, then
\* scheduled (its accounts are locked and deserialized into the handler's
\* context), then executed (the handler computes on the deserialized accounts,
\* its transfers act on the ledger, and the locks are released).
MaxHostOps == 3

HostPool == PoolAddress("mA", "mB")
HostTradeAmounts == {PoorBalance, TradeUnit}
HostDepositAmounts == {0, PoorBalance}
HostMinimumAmounts == {0}

\* the accounts a request declares writable: `#[account(mut)]` on both user
\* token accounts and both vaults, in AddLiquidity and in Swap alike
WritableAccounts_users_only(t) == {t.uta, t.utb}

WritableAccounts(t) == {t.uta, t.utb, VaultA(t.pool), VaultB(t.pool)}

\* the accounts write-locked by the transaction of caller u
Locked(u) == IF inflight[u].status = "running" THEN WritableAccounts(inflight[u]) ELSE {}

\* swap with the accounts of its context deserialized at `loaded` and the
\* ledger at `acc` when its transfers run; swap_handler is the case loaded = acc
swap_handler_on(loaded, acc, pls, user, pool, uta, utb, amount_in, minimum_amount_out, a_to_b) ==
    IF ~PoolAccountExists(pls, pool) THEN Outcome("NotFound", acc, 0) ELSE
    LET calc == swap_amount_out(loaded, pool, amount_in, a_to_b)
        amount_out == calc.val
    IN  IF calc.err # "Ok" THEN Outcome(calc.err, acc, 0)
        ELSE IF ~slippage_ok(amount_out, minimum_amount_out)
             THEN Outcome("SlippageTooHigh", acc, amount_out)
        ELSE swap_transfers(acc, pls, user, pool, uta, utb, amount_in, amount_out, a_to_b)

\* the pool of HostPool created by u1 and funded by u1 with DepositUnit of
\* each asset: the state after initialize_pool and one add_liquidity
InitHost ==
    /\ pools = [k \in {HostPool} |->
                  [authority |-> UserKey("u1"), mint_a |-> "mA", mint_b |-> "mB",
                   bump |-> CanonicalBump("mA", "mB")]]
    /\ accts = [k \in UserTokens \cup {VaultA(HostPool), VaultB(HostPool)} |->
                  IF k = VaultA(HostPool)
                  THEN [mint |-> "mA", owner |-> HostPool, amount |-> DepositUnit]
                  ELSE IF k = VaultB(HostPool)
                  THEN [mint |-> "mB", owner |-> HostPool, amount |-> DepositUnit]
                  ELSE [mint |-> k[3], owner |-> UserKey(k[2]),
                        amount |-> InitialBalance(k[2])
                                   - (IF k[2] = "u1" THEN DepositUnit ELSE 0)]]
    /\ last = NoRequest
    /\ prev = NoRequest
    /\ nops = 0
    /\ inflight = [u \in Users |-> IdleTx]

submit_swap(user, pool, uta, utb, amount_in, minimum_amount_out, a_to_b) ==
    /\ inflight[user].status = "idle"
    /\ nops < MaxHostOps
    /\ nops' = nops + 1
    /\ inflight' = [inflight EXCEPT ![user] =
                      [status |-> "pending", op |-> "swap", pool |-> pool,
                       uta |-> uta, utb |-> utb, x |-> amount_in,
                       y |-> minimum_amount_out, a_to_b |-> a_to_b,
                       seen |-> accts, loaded |-> <<>>]]
    /\ UNCHANGED <<pools, accts, last, prev>>

submit_add_liquidity(user, pool, uta, utb, amount_a, amount_b) ==
    /\ inflight[user].status = "idle"
    /\ nops < MaxHostOps
    /\ nops' = nops + 1
    /\ inflight' = [inflight EXCEPT ![user] =
                      [status |-> "pending", op |-> "add_liquidity", pool |-> pool,
                       uta |-> uta, utb |-> utb, x |-> amount_a, y |-> amount_b,
                       a_to_b |-> TRUE, seen |-> accts, loaded |-> <<>>]]
    /\ UNCHANGED <<pools, accts, last, prev>>

\* the runtime schedules a transaction once no account it writes is locked
begin(user) ==
    /\ inflight[user].status = "pending"
    /\ \A o \in Users \ {user} : WritableAccounts(inflight[user]) \cap Locked(o) = {}
    /\ inflight' = [inflight EXCEPT ![user].status = "running",
                                    ![user].loaded = accts]
    /\ UNCHANGED <<pools, accts, last, prev, nops>>

finish_swap(user) ==
    LET t == inflight[user]
        o == swap_handler_on(t.loaded, accts, pools, user, t.pool, t.uta, t.utb,
                             t.x, t.y, t.a_to_b) IN
    /\ t.status = "running"
    /\ t.op = "swap"
    /\ Remember
    /\ accts' = Commit(accts, o)
    /\ last' = Request("swap", user, t.pool, t.uta, t.utb, t.x, t.y, t.a_to_b,
                       o.result, o.amount_out)
    /\ inflight' = [inflight EXCEPT ![user].status = "idle"]
    /\ UNCHANGED <<pools, nops>>

finish_add_liquidity(user) ==
    LET t == inflight[user]
        o == add_liquidity_handler(accts, pools, user, t.pool, t.uta, t.utb, t.x, t.y) IN
    /\ t.status = "running"
    /\ t.op = "add_liquidity"
    /\ Remember
    /\ accts' = Commit(accts, o)
    /\ last' = Request("add_liquidity", user, t.pool, t.uta, t.utb, t.x, t.y,
                       TRUE, o.result, 0)
    /\ inflight' = [inflight EXCEPT ![user].status = "idle"]
    /\ UNCHANGED <<pools, nops>>

NextHost ==
    \/ \E u \in Users, x \in HostTradeAmounts, m \in HostMinimumAmounts, d \in BOOLEAN :
          submit_swap(u, HostPool, UserToken(u, "mA"), UserToken(u, "mB"), x, m, d)
    \/ \E u \in Users, a \in HostDepositAmounts, b \in HostDepositAmounts :
          submit_add_liquidity(u, HostPool, UserToken(u, "mA"), UserToken(u, "mB"), a, b)
    \/ \E u \in Users : begin(u)
    \/ \E u \in Users : finish_swap(u)
    \/ \E u \in Users : finish_add_liquidity(u)

SpecHost == InitHost /\ [][NextHost]_vars

\* ------------------------------------------------- reading a request ---
\* The request `r` named an initialized pool.
NamedPoolExists(r) == PoolAccountExists(r.prePools, r.pool)

VaultIn(r) == IF r.a_to_b THEN VaultA(r.pool) ELSE VaultB(r.pool)
VaultOut(r) == IF r.a_to_b THEN VaultB(r.pool) ELSE VaultA(r.pool)
UserIn(r) == IF r.a_to_b THEN r.uta ELSE r.utb
UserOut(r) == IF r.a_to_b THEN r.utb ELSE r.uta

\* the reserves, ordered by direction, before and after the request `r`
ReserveInBefore(r) == r.pre[VaultIn(r)].amount
ReserveOutBefore(r) == r.pre[VaultOut(r)].amount
ReserveInAfter(r) == accts[VaultIn(r)].amount
ReserveOutAfter(r) == accts[VaultOut(r)].amount

IsSwap(r) == r.op = "swap"
SwapSucceeded(r) == r.op = "swap" /\ r.result = "Ok"

\* the exact (unbounded) arithmetic of the pricing formula
TrueNumerator(r) == r.x * ReserveOutBefore(r)
TrueDenominator(r) == ReserveInBefore(r) + r.x
FormulaComputable(r) ==
    /\ TrueNumerator(r) <= U64_MAX
    /\ TrueDenominator(r) <= U64_MAX
    /\ TrueDenominator(r) > 0
FloorOutput(r) == TrueNumerator(r) \div TrueDenominator(r)

\* every balance and every pool is as it was before the last request
NothingChanged == accts = last.pre /\ pools = last.prePools

\* --------------------------------------------------------------- claims ---

\* C1: a successful swap, in either direction, never decreases the product of
\* the two reserves: reserve_in_after * reserve_out_after >=
\* reserve_in_before * reserve_out_before.
C1_ProductNeverDecreases ==
    SwapSucceeded(last) =>
        ReserveInAfter(last) * ReserveOutAfter(last)
            >= ReserveInBefore(last) * ReserveOutBefore(last)

\* a successful swap of a positive amount for a positive amount whose floor
\* rounding made the product grow
C1_Witness ==
    /\ SwapSucceeded(last)
    /\ last.x > 0
    /\ last.amount_out > 0
    /\ ReserveInAfter(last) * ReserveOutAfter(last)
           > ReserveInBefore(last) * ReserveOutBefore(last)

\* C2: a swap that does not fail pays the trader exactly
\* floor(amount_in * reserve_out / (reserve_in + amount_in)), computed from the
\* vault balances read before the inbound transfer and ordered by direction.
C2_FloorOutput ==
    SwapSucceeded(last) =>
        /\ FormulaComputable(last)
        /\ last.amount_out = FloorOutput(last)
        /\ accts[UserOut(last)].amount
               = last.pre[UserOut(last)].amount + FloorOutput(last)
        /\ last.amount_out * TrueDenominator(last) <= TrueNumerator(last)

\* a successful swap whose division left a remainder, on unequal reserves
C2_Witness ==
    /\ SwapSucceeded(last)
    /\ last.amount_out > 0
    /\ ReserveInBefore(last) # ReserveOutBefore(last)
    /\ last.amount_out * TrueDenominator(last) < TrueNumerator(last)

\* C3: a swap whose computed amount_out is strictly less than
\* minimum_amount_out fails with SlippageTooHigh whatever the transfers would
\* have done (the check comes after the computation and before any transfer),
\* and no balance changes.
C3_SlippageRejected ==
    (/\ IsSwap(last)
     /\ NamedPoolExists(last)
     /\ FormulaComputable(last)
     /\ FloorOutput(last) < last.y)
    => /\ last.result = "SlippageTooHigh"
       /\ last.amount_out = FloorOutput(last)
       /\ NothingChanged

\* a slippage rejection of a trader whose inbound transfer would have failed
\* too, on a pool that would have paid a positive amount
C3_Witness ==
    /\ IsSwap(last)
    /\ last.result = "SlippageTooHigh"
    /\ last.amount_out > 0
    /\ last.amount_out < last.y
    /\ last.pre[UserIn(last)].amount < last.x
    /\ NothingChanged

\* C4: a swap whose amount_in * reserve_out exceeds the u64 range fails with
\* MathOverflow, pays nothing (no wrapped amount_out) and changes no balance.
C4_OverflowRejected ==
    (/\ IsSwap(last)
     /\ NamedPoolExists(last)
     /\ TrueNumerator(last) > U64_MAX)
    => /\ last.result = "MathOverflow"
       /\ last.amount_out = 0
       /\ NothingChanged

\* a swap rejected for its product alone: the sum reserve_in + amount_in fits
C4_Witness ==
    /\ IsSwap(last)
    /\ NamedPoolExists(last)
    /\ TrueNumerator(last) > U64_MAX
    /\ TrueDenominator(last) <= U64_MAX
    /\ last.result = "MathOverflow"
    /\ NothingChanged

\* C5: a round trip never profits the trader: when a successful swap of x with
\* minimum 0 pays y and the next request is a successful swap of y with
\* minimum 0 in the opposite direction on the same pool, it pays at most x.
IsRoundTrip ==
    /\ SwapSucceeded(prev)
    /\ SwapSucceeded(last)
    /\ prev.pool = last.pool
    /\ prev.a_to_b # last.a_to_b
    /\ prev.y = 0
    /\ last.y = 0
    /\ last.x = prev.amount_out

C5_RoundTripNeverProfits == IsRoundTrip => last.amount_out <= prev.x

\* a round trip of a positive amount that returned strictly less than it cost
C5_Witness ==
    /\ IsRoundTrip
    /\ prev.x > 0
    /\ last.amount_out > 0
    /\ last.amount_out < prev.x
\* C6: at most one pool exists per unordered asset pair: once a pool of the
\* pair {a, b} exists, initialize_pool(a, b) and initialize_pool(b, a) both
\* fail with AlreadyExists and change nothing.
UnorderedPair(pool) == {pool[2], pool[3]}

C6_OnePoolPerUnorderedPair ==
    /\ \A p \in DOMAIN pools, q \in DOMAIN pools :
           UnorderedPair(p) = UnorderedPair(q) => p = q
    /\ (/\ last.op = "initialize_pool"
        /\ \E q \in DOMAIN last.prePools : UnorderedPair(q) = UnorderedPair(last.pool))
       => (last.result = "AlreadyExists" /\ NothingChanged)

\* C7: on reserves (1000, 1000) an A->B swap of 100 computes 90; with
\* minimum_amount_out = 91 it fails with SlippageTooHigh and the reserves stay
\* (1000, 1000); with minimum_amount_out = 90 a trader who passes its own
\* funded accounts succeeds and the reserves become (1100, 910).
IsScenario(r) ==
    /\ IsSwap(r)
    /\ NamedPoolExists(r)
    /\ r.a_to_b
    /\ r.x = 100
    /\ r.pre[VaultA(r.pool)].amount = 1000
    /\ r.pre[VaultB(r.pool)].amount = 1000

\* the caller passed its own accounts of the pool's mints, in order
OwnAccounts(r) ==
    /\ r.uta = UserToken(r.user, r.pool[2])
    /\ r.utb = UserToken(r.user, r.pool[3])

C7_ConcreteScenario ==
    IsScenario(last) =>
        /\ (last.y = 91 =>
               /\ last.result = "SlippageTooHigh"
               /\ last.amount_out = 90
               /\ accts[VaultA(last.pool)].amount = 1000
               /\ accts[VaultB(last.pool)].amount = 1000)
        /\ (last.y = 90 =>
               /\ last.result # "SlippageTooHigh"
               /\ last.amount_out = 90)
        /\ (last.y = 90 /\ OwnAccounts(last) /\ last.pre[last.uta].amount >= 100 =>
               /\ last.result = "Ok"
               /\ accts[VaultA(last.pool)].amount = 1100
               /\ accts[VaultB(last.pool)].amount = 910)

\* the scenario's swap with minimum_amount_out = 90, done
C7_Witness ==
    /\ IsScenario(last)
    /\ last.y = 90
    /\ last.result = "Ok"
    /\ accts[VaultA(last.pool)].amount = 1100
    /\ accts[VaultB(last.pool)].amount = 910

\* C8: a swap is all-or-nothing over its two transfers: when either transfer
\* fails the call reports the transfer error and every balance is as before
\* the call; after any swap either nothing changed or both legs are applied.
BothLegsApplied(r) ==
    /\ accts[VaultIn(r)].amount = r.pre[VaultIn(r)].amount + r.x
    /\ accts[VaultOut(r)].amount = r.pre[VaultOut(r)].amount - r.amount_out
    /\ accts[UserIn(r)].amount = r.pre[UserIn(r)].amount - r.x
    /\ accts[UserOut(r)].amount = r.pre[UserOut(r)].amount + r.amount_out

\* the transfers of the request `r`, tried on the accounts as they were
InboundWouldSucceed(r) ==
    TransferOk(r.pre, UserIn(r), VaultIn(r), UserKey(r.user), {UserKey(r.user)}, r.x)

OutboundWouldSucceed(r) ==
    r.pre[VaultOut(r)].mint = r.pre[UserOut(r)].mint

C8_SwapAllOrNothing ==
    IsSwap(last) =>
        /\ (last.result = "Ok" => BothLegsApplied(last))
        /\ (last.result # "Ok" => NothingChanged)
        /\ (/\ NamedPoolExists(last)
            /\ FormulaComputable(last)
            /\ FloorOutput(last) >= last.y
            /\ (~InboundWouldSucceed(last) \/ ~OutboundWouldSucceed(last))
            => last.result = "TransferError")

\* a swap whose inbound transfer of a positive amount went through and whose
\* outbound transfer then failed
C8_Witness ==
    /\ IsSwap(last)
    /\ last.result = "TransferError"
    /\ last.x > 0
    /\ InboundWouldSucceed(last)
    /\ ~OutboundWouldSucceed(last)
    /\ NothingChanged

IsDeposit(r) == r.op = "add_liquidity"

DepositFunded(r) ==
    /\ NamedPoolExists(r)
    /\ OwnAccounts(r)
    /\ r.pre[r.uta].amount >= r.x
    /\ r.pre[r.utb].amount >= r.y

C10_AddLiquidity ==
    IsDeposit(last) =>
        /\ (DepositFunded(last) => last.result = "Ok")
        /\ (last.result = "Ok" =>
               /\ accts[VaultA(last.pool)].amount
                      = last.pre[VaultA(last.pool)].amount + last.x
               /\ accts[VaultB(last.pool)].amount
                      = last.pre[VaultB(last.pool)].amount + last.y
               /\ accts[last.uta].amount = last.pre[last.uta].amount - last.x
               /\ accts[last.utb].amount = last.pre[last.utb].amount - last.y
               /\ last.pre[last.uta].owner = UserKey(last.user)
               /\ last.pre[last.utb].owner = UserKey(last.user)
               /\ DOMAIN accts = DOMAIN last.pre
               /\ \A k \in DOMAIN accts :
                      k \notin {VaultA(last.pool), VaultB(last.pool), last.uta, last.utb}
                          => accts[k] = last.pre[k]
               /\ pools = last.prePools)

\* a successful deposit into funded reserves in a ratio that is not theirs
C10_Witness ==
    /\ IsDeposit(last)
    /\ last.result = "Ok"
    /\ last.x + last.y > 0
    /\ last.pre[VaultA(last.pool)].amount + last.pre[VaultB(last.pool)].amount > 0
    /\ last.x * last.pre[VaultB(last.pool)].amount
           # last.y * last.pre[VaultA(last.pool)].amount
    /\ accts[VaultA(last.pool)].amount = last.pre[VaultA(last.pool)].amount + last.x
    /\ accts[VaultB(last.pool)].amount = last.pre[VaultB(last.pool)].amount + last.y

\* C11: a swap with reserve_in = 0 and amount_in = 0 fails with MathOverflow
\* (the division by zero) for every minimum_amount_out and changes nothing;
\* MathOverflow without an overflowing product or sum happens in this case only.
ZeroDenominator(r) == ReserveInBefore(r) = 0 /\ r.x = 0

C11_DivisionByZero ==
    (IsSwap(last) /\ NamedPoolExists(last)) =>
        /\ (ZeroDenominator(last) =>
               /\ last.result = "MathOverflow"
               /\ last.amount_out = 0
               /\ NothingChanged)
        /\ (/\ last.result = "MathOverflow"
            /\ TrueNumerator(last) <= U64_MAX
            /\ TrueDenominator(last) <= U64_MAX
            => ZeroDenominator(last))

\* a swap of nothing into an empty input reserve, with a funded output reserve
\* and a positive minimum, rejected for the division
C11_Witness ==
    /\ IsSwap(last)
    /\ NamedPoolExists(last)
    /\ ZeroDenominator(last)
    /\ ReserveOutBefore(last) > 0
    /\ last.y > 0
    /\ last.result = "MathOverflow"
    /\ NothingChanged

\* C12: only the pool's delegated authority moves value out of a vault: a
\* vault balance decreases only as the outbound leg of a successful swap, by
\* exactly its amount_out; initialize_pool, add_liquidity and failed requests
\* never decrease one; a request whose user-signed transfer names a vault as
\* the account to pay from fails and changes nothing.
IsVault(k) == k[1] \in {"vault_a", "vault_b"}

\* the accounts the user's own signature is to pay from in the request `r`
UserSignedSources(r) ==
    IF r.op = "swap" THEN {UserIn(r)}
    ELSE IF r.op = "add_liquidity" THEN {r.uta, r.utb}
    ELSE {}

C12_OnlyPoolDebitsVault ==
    /\ \A k \in DOMAIN accts : IsVault(k) => accts[k].owner = PoolAddress(k[2], k[3])
    /\ \A k \in DOMAIN last.pre :
           (IsVault(k) /\ accts[k].amount < last.pre[k].amount) =>
               /\ SwapSucceeded(last)
               /\ k = VaultOut(last)
               /\ last.pre[k].amount - accts[k].amount = last.amount_out
    /\ (\E k \in UserSignedSources(last) : IsVault(k)) =>
           (last.result # "Ok" /\ NothingChanged)

\* a swap whose user-signed inbound transfer named a funded vault of the
\* right mint as the account to pay from, rejected by the ledger
C12_Witness ==
    /\ IsSwap(last)
    /\ NamedPoolExists(last)
    /\ IsVault(UserIn(last))
    /\ last.x > 0
    /\ last.pre[UserIn(last)].amount >= last.x
    /\ last.pre[UserIn(last)].mint = last.pre[VaultIn(last)].mint
    /\ last.result = "TransferError"
    /\ NothingChanged

\* C13: trading is symmetric in the two assets: a swap in one direction on a
\* pool with reserves (a, b) has the same result and amount_out, and the
\* mirrored balance changes, as the swap in the other direction, with the two
\* user accounts exchanged, on the pool of the swapped mints with reserves (b, a).
MirrorPool(r) == OtherPool(r.pool)

MirrorPools(r) ==
    [q \in {MirrorPool(r)} |->
        [authority |-> r.prePools[r.pool].authority,
         mint_a |-> r.pool[3], mint_b |-> r.pool[2],
         bump |-> CanonicalBump(r.pool[3], r.pool[2])]]

MirrorAccounts(r) ==
    [k \in UserTokens \cup {VaultA(MirrorPool(r)), VaultB(MirrorPool(r))} |->
        IF k = VaultA(MirrorPool(r))
        THEN [mint |-> r.pool[3], owner |-> MirrorPool(r),
              amount |-> r.pre[VaultB(r.pool)].amount]
        ELSE IF k = VaultB(MirrorPool(r))
        THEN [mint |-> r.pool[2], owner |-> MirrorPool(r),
              amount |-> r.pre[VaultA(r.pool)].amount]
        ELSE r.pre[k]]

MirrorOutcome(r) ==
    swap_handler(MirrorAccounts(r), MirrorPools(r), r.user, MirrorPool(r),
                 r.utb, r.uta, r.x, r.y, ~r.a_to_b)

SameAsMirror(r) ==
    LET o == MirrorOutcome(r)
        post == Commit(MirrorAccounts(r), o)
    IN  /\ o.result = r.result
        /\ o.amount_out = r.amount_out
        /\ \A k \in UserTokens : post[k] = accts[k]
        /\ post[VaultA(MirrorPool(r))].amount = accts[VaultB(r.pool)].amount
        /\ post[VaultB(MirrorPool(r))].amount = accts[VaultA(r.pool)].amount

C13_TradingSymmetric ==
    (/\ IsSwap(last)
     /\ NamedPoolExists(last)
     /\ last.uta \in UserTokens
     /\ last.utb \in UserTokens)
    => SameAsMirror(last)

\* a successful B->A swap on unequal reserves that paid a positive amount
C13_Witness ==
    /\ SwapSucceeded(last)
    /\ ~last.a_to_b
    /\ last.x > 0
    /\ last.amount_out > 0
    /\ last.pre[VaultA(last.pool)].amount # last.pre[VaultB(last.pool)].amount
    /\ SameAsMirror(last)

\* C14: a pool record, once created, is never changed or deleted: whatever the
\* last request was and however it ended, every pool that existed before it
\* still exists with the same authority, mints and bump; and every record holds
\* what initialize_pool wrote: the mints of its seeds and their canonical bump.
C14_PoolRecordImmutable ==
    /\ \A p \in DOMAIN last.prePools :
           p \in DOMAIN pools /\ pools[p] = last.prePools[p]
    /\ \A p \in DOMAIN pools :
           /\ pools[p].mint_a = p[2]
           /\ pools[p].mint_b = p[3]
           /\ pools[p].bump = CanonicalBump(p[2], p[3])
           /\ pools[p].authority \in {UserKey(u) : u \in Users}
    /\ (last.op = "initialize_pool" /\ last.result = "Ok") =>
           /\ last.pool \notin DOMAIN last.prePools
           /\ pools[last.pool].authority = UserKey(last.user)

\* an initialize_pool of an existing pool by another authority than its
\* creator, after which the record still names the creator
C14_Witness ==
    /\ last.op = "initialize_pool"
    /\ last.result = "AlreadyExists"
    /\ last.pool \in DOMAIN pools
    /\ pools[last.pool].authority # UserKey(last.user)
    /\ pools[last.pool] = last.prePools[last.pool]

\* C15: no swap and no add_liquidity succeeds on a pool before initialize_pool
\* has succeeded for it: a request that names a pool that was never created
\* fails with NotFound and changes nothing.
NamesMissingPool(r) ==
    /\ r.op \in {"swap", "add_liquidity"}
    /\ r.pool \notin DOMAIN r.prePools

C15_NoPoolNoRequest ==
    /\ NamesMissingPool(last) => (last.result = "NotFound" /\ NothingChanged)
    /\ (last.op \in {"swap", "add_liquidity"} /\ last.result = "Ok") =>
           last.pool \in DOMAIN last.prePools
    /\ \A k \in DOMAIN accts :
           IsVault(k) => PoolAddress(k[2], k[3]) \in DOMAIN pools

\* a funded request refused on a pool that was never created while the pool
\* of the swapped pair exists
C15_Witness ==
    /\ NamesMissingPool(last)
    /\ OtherPool(last.pool) \in DOMAIN pools
    /\ last.x > 0
    /\ OwnAccounts(last)
    /\ last.pre[last.uta].amount >= last.x
    /\ last.result = "NotFound"
    /\ NothingChanged

\* C16: add_liquidity is all-or-nothing: when a transfer fails, also the
\* transfer of asset B after the transfer of asset A went through, the call
\* reports the transfer error and both reserves and every user balance are as
\* before the call.
TransferAWouldSucceed(r) ==
    TransferOk(r.pre, r.uta, VaultA(r.pool), UserKey(r.user), {UserKey(r.user)}, r.x)

\* the B leg, tried on the accounts as they were (it reads no account the A
\* leg changes unless both legs pay from the same account)
TransferBWouldSucceed(r) ==
    /\ r.pre[r.utb].mint = r.pre[VaultB(r.pool)].mint
    /\ r.pre[r.utb].owner = UserKey(r.user)
    /\ r.pre[r.utb].amount >= r.y + (IF r.utb = r.uta THEN r.x ELSE 0)

C16_DepositAllOrNothing ==
    (IsDeposit(last) /\ NamedPoolExists(last)) =>
        /\ (last.result # "Ok" => NothingChanged)
        /\ (~TransferAWouldSucceed(last) => last.result = "TransferError")
        /\ (TransferAWouldSucceed(last) /\ ~TransferBWouldSucceed(last) =>
               last.result = "TransferError")

\* a deposit whose transfer of a positive amount of asset A went through and
\* whose transfer of asset B then failed
C16_Witness ==
    /\ IsDeposit(last)
    /\ NamedPoolExists(last)
    /\ last.x > 0
    /\ TransferAWouldSucceed(last)
    /\ ~TransferBWouldSucceed(last)
    /\ last.result = "TransferError"
    /\ NothingChanged

\* C18: Value is conserved: for each asset, the balances of all vaults and all
\* user accounts of that asset add up to the same total in every reachable
\* state, whatever pool creations, deposits and swaps succeeded or failed.
RECURSIVE SumAmounts(_, _)
SumAmounts(acc, keys) ==
    IF keys = {} THEN 0
    ELSE LET k == CHOOSE e \in keys : TRUE
         IN  acc[k].amount + SumAmounts(acc, keys \ {k})

TotalOf(acc, mint) == SumAmounts(acc, {k \in DOMAIN acc : acc[k].mint = mint})

RECURSIVE SumInitial(_)
SumInitial(us) ==
    IF us = {} THEN 0
    ELSE LET u == CHOOSE e \in us : TRUE
         IN  InitialBalance(u) + SumInitial(us \ {u})

C18_ValueConserved == \A m \in Mints : TotalOf(accts, m) = SumInitial(Users)

\* a swap that moved a positive amount each way on a pool holding both assets
C18_Witness ==
    /\ SwapSucceeded(last)
    /\ last.x > 0
    /\ last.amount_out > 0
    /\ accts[VaultA(last.pool)].amount # last.pre[VaultA(last.pool)].amount
    /\ accts[VaultB(last.pool)].amount # last.pre[VaultB(last.pool)].amount
    /\ \A m \in Mints : TotalOf(accts, m) = TotalOf(last.pre, m)

\* C19: A swap never drains a funded pool: a successful swap on a pool whose
\* two reserves are positive pays out less than reserve_out, so reserves that
\* are both positive stay positive across every swap and deposit; and every
\* successful swap pays out at most reserve_out.
BothReservesPositive(acc, pool) ==
    /\ acc[VaultA(pool)].amount > 0
    /\ acc[VaultB(pool)].amount > 0

C19_NeverDrained ==
    /\ SwapSucceeded(last) =>
          /\ last.amount_out <= ReserveOutBefore(last)
          /\ BothReservesPositive(last.pre, last.pool) =>
                 last.amount_out < ReserveOutBefore(last)
    /\ \A pool \in DOMAIN last.prePools :
          BothReservesPositive(last.pre, pool) => BothReservesPositive(accts, pool)

\* a swap that pays out a positive amount from a pool with both reserves positive
C19_Witness ==
    /\ SwapSucceeded(last)
    /\ BothReservesPositive(last.pre, last.pool)
    /\ last.x > 0
    /\ last.amount_out > 0
    /\ last.amount_out < ReserveOutBefore(last)
    /\ BothReservesPositive(accts, last.pool)

\* C17: Under any interleaving of swap and add_liquidity requests issued by
\* several callers against the same pool, each swap computes amount_out from
\* the reserves in effect when its own transfers are applied: no transaction
\* holds a reserve reading that another request has changed, every swap ends
\* as it would when run alone on the ledger of that moment, and no request
\* decreases the reserve product.
ReservesOf(acc, pool) == <<acc[VaultA(pool)].amount, acc[VaultB(pool)].amount>>

ReserveProduct(acc, pool) == acc[VaultA(pool)].amount * acc[VaultB(pool)].amount

RanAlone(r) ==
    swap_handler(r.pre, r.prePools, r.user, r.pool, r.uta, r.utb, r.x, r.y, r.a_to_b)

C17_NoStaleReserves ==
    /\ \A u \in Users :
          inflight[u].status = "running" =>
              ReservesOf(inflight[u].loaded, inflight[u].pool)
                  = ReservesOf(accts, inflight[u].pool)
    /\ IsSwap(last) =>
          /\ last.result = RanAlone(last).result
          /\ last.amount_out = RanAlone(last).amount_out
          /\ accts = Commit(last.pre, RanAlone(last))
    /\ SwapSucceeded(last) => last.amount_out = FloorOutput(last)
    /\ \A pool \in DOMAIN last.prePools :
          ReserveProduct(accts, pool) >= ReserveProduct(last.pre, pool)

\* a swap that was issued, saw another caller's request change the reserves
\* before it ran, and paid what the changed reserves give, which is not what
\* the reserves at the time it was issued would have given
C17_Witness ==
    /\ SwapSucceeded(last)
    /\ last.x > 0
    /\ ReservesOf(inflight[last.user].seen, last.pool) # ReservesOf(last.pre, last.pool)
    /\ last.amount_out = FloorOutput(last)
    /\ last.amount_out # swap_amount_out(inflight[last.user].seen, last.pool,
                                         last.x, last.a_to_b).val

\* C20: Splitting a trade never benefits the trader: when two consecutive
\* swaps of x1 and then x2 in the same direction both succeed, their outputs
\* add up to at most the output of a single swap of x1 + x2 in that direction
\* from the same starting reserves.
IsSplitTrade ==
    /\ SwapSucceeded(prev)
    /\ SwapSucceeded(last)
    /\ prev.pool = last.pool
    /\ prev.a_to_b = last.a_to_b

SingleSwap ==
    calculate_swap_output(prev.x + last.x, ReserveInBefore(prev), ReserveOutBefore(prev))

SingleSwapHasOutput == prev.x + last.x <= U64_MAX /\ SingleSwap.err = "Ok"

C20_SplitNeverBenefits ==
    IsSplitTrade =>
        /\ SingleSwapHasOutput
        /\ prev.amount_out + last.amount_out <= SingleSwap.val

\* C20 as it holds: the same, provided the single swap of x1 + x2 is itself
\* computable, that is (x1 + x2) * reserve_out and reserve_in + x1 + x2 fit
\* the integer width.
C20_SplitNeverBeatsComputableSingle ==
    (IsSplitTrade /\ SingleSwapHasOutput) =>
        prev.amount_out + last.amount_out <= SingleSwap.val

\* two consecutive swaps of positive amounts on a funded pool, each paying a
\* positive amount, whose combined trade is computable
C20_Witness ==
    /\ IsSplitTrade
    /\ SingleSwapHasOutput
    /\ prev.x > 0
    /\ last.x > 0
    /\ prev.amount_out > 0
    /\ last.amount_out > 0
    /\ BothReservesPositive(prev.pre, prev.pool)
    /\ prev.amount_out + last.amount_out <= SingleSwap.val

====
